---- MODULE Spec2Model ----
(***************************************************************************)
(* Booking / payment workflow of alx_travel_app/listings/views.py.         *)
(*                                                                         *)
(* The database (Booking and Payment tables) and the Celery queue are the  *)
(* shared state.  Every HTTP request is a process that runs one handler;   *)
(* a handler is cut into steps at its database statements and at its       *)
(* calls to the gateway and to the queue, because Django runs each         *)
(* statement in autocommit mode and the views open no transaction.  A      *)
(* model instance loaded by a handler is a private in-memory copy of the   *)
(* row, and instance.save() writes every field of that copy back.          *)
(***************************************************************************)
EXTENDS Integers, Sequences, FiniteSets, TLC

\* ------------------------------------------------------------------------
\* Bounds of the exploration
\* ------------------------------------------------------------------------
MaxBookings == 1       \* Booking rows ever created
MaxCalls == 4          \* HTTP requests ever received, overlapping freely
MaxSeqCalls == 6       \* HTTP requests ever received, one at a time

\* Worker processes the server can be started with.
Workers == {1, 2}

\* Inputs of booking creation (Booking.total_price).
Prices == {100, 400}

\* ------------------------------------------------------------------------
\* Values
\* ------------------------------------------------------------------------
None == "None"                 \* Python None / absent field
NoPk == 0                      \* no row (primary keys start at 1)
NoKwargs == -1                 \* a view object whose .kwargs was never set

CHAPA_CURRENCY == "ETB"

VARIABLES
    bookings,     \* Booking table: sequence of rows, primary key = index
    payments,     \* Payment table: sequence of rows, primary key = index
    queue,        \* jobs handed to send_booking_confirmation_email.delay
    req,          \* per worker: the request it is serving and its locals
    last,         \* the request that just returned, as it returned
    calls,        \* number of requests received so far
    pool,         \* number of worker processes the server runs (fixed)
    granted       \* Payments for which the gateway has answered a verify
                  \* with success (history, read by no handler)

vars == <<bookings, payments, queue, req, last, calls, pool, granted>>

\* ------------------------------------------------------------------------
\* Rows
\* ------------------------------------------------------------------------
\* Field defaults of the Payment model (models.py): a new row is pending and
\* carries neither a gateway transaction id nor a checkout URL.
PaymentDefaults ==
    [status |-> "pending", transaction_id |-> None, payment_url |-> None]

\* Field default of the Booking model (models.py).
BookingDefaults == [status |-> "pending"]

\* Variant: the amount is not taken from the Booking.
NewPaymentRow_FixedAmount(pk, b) ==
    [id |-> pk, booking |-> b, amount |-> 100,
     currency |-> CHAPA_CURRENCY,
     status |-> PaymentDefaults.status,
     transaction_id |-> PaymentDefaults.transaction_id,
     payment_url |-> PaymentDefaults.payment_url]

\* Payment.objects.create(booking=booking, amount=booking.total_price,
\*                        currency='ETB')
NewPaymentRow(pk, b) ==
    [id |-> pk, booking |-> b, amount |-> bookings[b].total_price,
     currency |-> CHAPA_CURRENCY,
     status |-> PaymentDefaults.status,
     transaction_id |-> PaymentDefaults.transaction_id,
     payment_url |-> PaymentDefaults.payment_url]

NoPayment == [id |-> NoPk]

PaymentIds == 1..Len(payments)
BookingIds == 1..Len(bookings)

PaymentsOf(b) == {p \in PaymentIds : payments[p].booking = b}
PendingOf(b) == {p \in PaymentsOf(b) : payments[p].status = "pending"}

\* ------------------------------------------------------------------------
\* Responses
\* ------------------------------------------------------------------------
Resp(code, st, msg) ==
    [code |-> code, status |-> st, message |-> msg, payment_url |-> None]

NoResp == Resp(0, None, None)

\* An exception that no handler catches: the framework answers 500.
Uncaught(exc) == Resp(500, "exception", exc)

\* ------------------------------------------------------------------------
\* Request processes
\* ------------------------------------------------------------------------
IdleReq ==
    [op |-> "idle", pc |-> "idle", pk |-> NoPk, kwargs |-> NoKwargs,
     booking |-> NoPk, payment |-> NoPayment, seen |-> None,
     created |-> FALSE,
     delegated |-> NoPk, called |-> FALSE, tries |-> 0,
     callback |-> <<>>, delays |-> 0, raised |-> FALSE,
     ans |-> [http |-> -1, status |-> None, transaction_id |-> None,
              checkout_url |-> None],
     resp |-> NoResp,
     pre |-> [bookings |-> <<>>, payments |-> <<>>, queue |-> <<>>],
     after |-> [op |-> "idle", booking |-> NoPk, delegated |-> NoPk]]

Free(w) == req[w].pc = "idle"

\* Workers are interchangeable: a request goes to the first free one of the
\* pool.
Takes(w) == w <= pool /\ Free(w) /\ \A v \in Workers : v < w => ~Free(v)

\* Worker w continues as r; a handler that has returned frees its worker.
Put(w, r) ==
    IF r.pc = "done"
      THEN req' = [req EXCEPT ![w] = IdleReq] /\ last' = r
      ELSE req' = [req EXCEPT ![w] = r] /\ last' = last

\* Worker w takes up the new request r.  `last` is kept only until the next
\* request arrives (r.after remembers what it needs of it).
Take(w, r) ==
    IF r.pc = "done"
      THEN req' = req /\ last' = r
      ELSE req' = [req EXCEPT ![w] = r] /\ last' = IdleReq

\* The state a request finds when it arrives.
Snapshot == [bookings |-> bookings, payments |-> payments, queue |-> queue]

\* The request that returned last before this one arrived.
Previous ==
    [op |-> last.op, booking |-> last.booking, delegated |-> last.delegated]

\* pre and after are bookkeeping for the properties of a single call; they
\* are kept when requests are served one at a time, where pre is the state
\* the whole call works on.
NewReq(op) ==
    IF pool = 1
      THEN [IdleReq EXCEPT !.op = op, !.pre = Snapshot, !.after = Previous]
      ELSE [IdleReq EXCEPT !.op = op]

\* Empty database, empty queue, no request in flight.
Fresh ==
    /\ bookings = <<>>
    /\ payments = <<>>
    /\ queue = <<>>
    /\ req = [w \in Workers |-> IdleReq]
    /\ last = IdleReq
    /\ calls = 0
    /\ granted = {}

\* Requests overlap: two worker processes.
Init == Fresh /\ pool = 2

\* One request at a time: a single synchronous worker process.
InitSeq == Fresh /\ pool = 1

CallLimit == IF pool = 1 THEN MaxSeqCalls ELSE MaxCalls

\* Primary keys a client may name: the existing ones and one unknown.
PaymentPks == 1..(Len(payments) + 1)
BookingPks == 1..(Len(bookings) + 1)

\* Every primary key that can come up within the bounds.
Pks == 1..(MaxCalls + MaxSeqCalls + 1)

Accept ==
    /\ calls < CallLimit
    /\ calls' = calls + 1
    /\ pool' = pool
    /\ granted' = granted

\* ------------------------------------------------------------------------
\* BookingViewSet.perform_create
\* ------------------------------------------------------------------------
\* booking = serializer.save()
CreateBooking(w, price) ==
    /\ Takes(w) /\ Accept
    /\ Len(bookings) < MaxBookings
    /\ bookings' = Append(bookings,
                     [status |-> BookingDefaults.status, total_price |-> price])
    /\ Take(w, [NewReq("create") EXCEPT !.pc = "c_payment",
                                       !.booking = Len(bookings) + 1])
    /\ UNCHANGED <<payments, queue>>

\* payment = Payment.objects.create(...)
CreatePayment(w) ==
    /\ req[w].pc = "c_payment"
    /\ payments' = Append(payments,
                          NewPaymentRow(Len(payments) + 1, req[w].booking))
    /\ Put(w, [req[w] EXCEPT !.pc = "c_enqueue", !.created = TRUE,
                 !.payment = NewPaymentRow(Len(payments) + 1, req[w].booking)])
    /\ UNCHANGED <<bookings, queue, calls, pool, granted>>

\* One job of send_booking_confirmation_email.delay(booking_id=booking.id, ...)
Job(b, by) == [booking_id |-> b, by |-> by]

\* send_booking_confirmation_email.delay(...); return booking.
\* delay() publishes to the broker and raises when the broker is unreachable;
\* perform_create has no try block around it.
CreateEnqueue(w, ok) ==
    /\ req[w].pc = "c_enqueue"
    /\ IF ok
         THEN /\ queue' = Append(queue, Job(req[w].booking, "create"))
              /\ Put(w, [req[w] EXCEPT !.pc = "done", !.delays = @ + 1,
                                       !.resp = Resp(201, "created", None)])
         ELSE /\ queue' = queue
              /\ Put(w, [req[w] EXCEPT !.pc = "done", !.delays = @ + 1,
                                       !.raised = TRUE,
                                       !.resp = Uncaught("OperationalError")])
    /\ UNCHANGED <<bookings, payments, calls, pool, granted>>

\* ------------------------------------------------------------------------
\* The payment gateway (external): what one HTTP exchange can produce
\* ------------------------------------------------------------------------
\* requests.post / requests.get raised requests.exceptions.RequestException
TransportError ==
    [http |-> 0, status |-> "ConnectionError",
     transaction_id |-> None, checkout_url |-> None]

Answer(http, st, tx, url) ==
    [http |-> http, status |-> st, transaction_id |-> tx, checkout_url |-> url]

\* Answers to POST /transaction/initialize: response.status_code,
\* response_data['status'] and the two fields read from response_data['data'].
InitAnswers ==
    { Answer(200, "success", "tx_1", "url_1"),
      Answer(200, "success", "tx_2", "url_2"),
      Answer(200, "success", None, "url_1"),
      Answer(200, "failed", None, None),
      Answer(400, "success", "tx_1", "url_1"),
      TransportError }

\* Answers to GET /transaction/verify/{transaction_id}.
VerifyAnswers ==
    { Answer(200, "success", None, None),
      Answer(200, "failed", None, None),
      Answer(400, "success", None, None),
      Answer(400, "failed", None, None),
      TransportError }

\* response.status_code == 200 and response_data.get('status') == 'success'
GatewaySuccess(ans) == ans.http = 200 /\ ans.status = "success"

\* `not payment.transaction_id`
Falsy(v) == v = None \/ v = ""

\* ------------------------------------------------------------------------
\* GenericAPIView.get_object as PaymentViewSet uses it
\* ------------------------------------------------------------------------
\* self.get_object() filters the queryset by self.kwargs['pk'].  The router
\* sets .kwargs when it dispatches a request to the view; a view object built
\* by hand has no .kwargs, and reading it raises AttributeError.  An unknown
\* pk raises Http404.
GetPaymentObject(r) ==
    IF r.kwargs = NoKwargs
      THEN [r EXCEPT !.pc = "done", !.resp = Uncaught("AttributeError")]
      ELSE IF r.kwargs \notin PaymentIds
             THEN [r EXCEPT !.pc = "done",
                            !.resp = Resp(404, "error", "Not found.")]
             ELSE [r EXCEPT !.payment = payments[r.kwargs]]

\* ------------------------------------------------------------------------
\* URLs (a path is the sequence of its segments)
\* ------------------------------------------------------------------------
\* 'callback_url': f"{request.build_absolute_uri('/').rstrip('/')}
\*                   /api/payments/{payment.id}/verify/"
CallbackUrl(pk) == <<"api", "payments", ToString(pk), "verify">>

\* router.register(r'payments', PaymentViewSet): a detail @action is routed
\* as {prefix}/{pk}/{url_path}/, and url_path defaults to the method's name.
VerifyRoute(pk) == <<"payments", ToString(pk), "verify_payment">>

\* The project's urls.py decides where listings.urls is mounted.
MountPrefixes == {<<>>, <<"api">>}

\* ------------------------------------------------------------------------
\* PaymentViewSet.initiate_payment
\* ------------------------------------------------------------------------
\* payment = self.get_object(); booking = payment.booking (the Booking row
\* is fetched here: seen is the status read); build the payload
PInitEnter(r) ==
    LET g == GetPaymentObject(r)
    IN  IF g.pc = "done" THEN g
        ELSE [g EXCEPT !.pc = "pi_post",
                       !.seen = bookings[g.payment.booking].status,
                       !.callback = CallbackUrl(g.payment.id)]

\* POST /payments/{pk}/initiate_payment/ routed by the DefaultRouter
StartPInit(w, pk) ==
    /\ Takes(w) /\ Accept
    /\ pk \in PaymentPks
    /\ Take(w, PInitEnter([NewReq("pinit") EXCEPT !.pk = pk, !.kwargs = pk]))
    /\ UNCHANGED <<bookings, payments, queue>>

\* Variant: a registered transaction is taken for a finished payment.
PInitOnAnswer_Completes(r, ans) ==
    IF ans = TransportError
      THEN [r EXCEPT !.pc = "done", !.called = TRUE, !.ans = ans,
                     !.resp = Resp(503, "error",
                                   "Failed to connect to payment service")]
      ELSE IF GatewaySuccess(ans)
             THEN [r EXCEPT !.pc = "pi_save", !.called = TRUE, !.ans = ans,
                            !.payment.transaction_id = ans.transaction_id,
                            !.payment.payment_url = ans.checkout_url,
                            !.payment.status = "completed"]
             ELSE [r EXCEPT !.pc = "done", !.called = TRUE, !.ans = ans,
                            !.resp = Resp(400, "error",
                                          "Failed to initiate payment")]

\* Variant: a transport failure is retried once.
PInitOnAnswer_RetriesOnce(r, ans) ==
    IF ans = TransportError
      THEN IF r.tries < 2
             THEN [r EXCEPT !.called = TRUE, !.ans = ans]
             ELSE [r EXCEPT !.pc = "done", !.called = TRUE, !.ans = ans,
                            !.resp = Resp(503, "error",
                                          "Failed to connect to payment service")]
      ELSE IF GatewaySuccess(ans)
             THEN [r EXCEPT !.pc = "pi_save", !.called = TRUE, !.ans = ans,
                            !.payment.transaction_id = ans.transaction_id,
                            !.payment.payment_url = ans.checkout_url]
             ELSE [r EXCEPT !.pc = "done", !.called = TRUE, !.ans = ans,
                            !.resp = Resp(400, "error",
                                          "Failed to initiate payment")]

\* What the handler does with the gateway's answer to requests.post
PInitOnAnswer(r, ans) ==
    IF ans = TransportError
      THEN [r EXCEPT !.pc = "done", !.called = TRUE, !.ans = ans,
                     !.resp = Resp(503, "error",
                                   "Failed to connect to payment service")]
      ELSE IF GatewaySuccess(ans)
             THEN [r EXCEPT !.pc = "pi_save", !.called = TRUE, !.ans = ans,
                            !.payment.transaction_id = ans.transaction_id,
                            !.payment.payment_url = ans.checkout_url]
             ELSE [r EXCEPT !.pc = "done", !.called = TRUE, !.ans = ans,
                            !.resp = Resp(400, "error",
                                          "Failed to initiate payment")]

\* response = requests.post(f'{CHAPA_API_URL}/transaction/initialize', ...)
PInitPost(w, ans) ==
    /\ req[w].pc = "pi_post"
    /\ Put(w, PInitOnAnswer([req[w] EXCEPT !.tries = @ + 1], ans))
    /\ UNCHANGED <<bookings, payments, queue, calls, pool, granted>>

\* payment.save() writes every field of the in-memory instance.
SaveRow(row) == [payments EXCEPT ![row.id] = row]

\* Response({'status': 'success', ..., 'payment_url': payment.payment_url})
PInitSuccess(row) ==
    [Resp(200, "success", "Payment initiated successfully")
     EXCEPT !.payment_url = row.payment_url]

\* payment.save(); return Response(...)
PInitSave(w) ==
    /\ req[w].pc = "pi_save"
    /\ payments' = SaveRow(req[w].payment)
    /\ Put(w, [req[w] EXCEPT !.pc = "done",
                             !.resp = PInitSuccess(req[w].payment)])
    /\ UNCHANGED <<bookings, queue, calls, pool, granted>>

\* ------------------------------------------------------------------------
\* PaymentViewSet.verify_payment
\* ------------------------------------------------------------------------
\* Variant: the transaction id is not checked before the gateway is called.
VerifyEnter_NoCheck(r) ==
    LET g == GetPaymentObject(r)
    IN  IF g.pc = "done" THEN g ELSE [g EXCEPT !.pc = "v_get"]

\* payment = self.get_object(); if not payment.transaction_id: return 400
VerifyEnter(r) ==
    LET g == GetPaymentObject(r)
    IN  IF g.pc = "done" THEN g
        ELSE IF Falsy(g.payment.transaction_id)
               THEN [g EXCEPT !.pc = "done",
                        !.resp = Resp(400, "error",
                                  "No transaction ID found for this payment")]
               ELSE [g EXCEPT !.pc = "v_get"]

\* POST /payments/{pk}/verify_payment/ routed by the DefaultRouter
StartVerify(w, pk) ==
    /\ Takes(w) /\ Accept
    /\ pk \in PaymentPks
    /\ Take(w, VerifyEnter([NewReq("verify") EXCEPT !.pk = pk, !.kwargs = pk]))
    /\ UNCHANGED <<bookings, payments, queue>>

\* Variant: a refused verification is reported but the Payment is not marked.
VerifyOnAnswer_KeepsStatus(r, ans) ==
    IF ans = TransportError
      THEN [r EXCEPT !.pc = "done", !.called = TRUE, !.ans = ans,
                     !.resp = Resp(503, "error", "Failed to verify payment")]
      ELSE IF GatewaySuccess(ans)
             THEN [r EXCEPT !.pc = "v_save", !.called = TRUE, !.ans = ans,
                            !.payment.status = "completed"]
             ELSE [r EXCEPT !.pc = "v_fail", !.called = TRUE, !.ans = ans]

\* Variant: a transport error is treated like a refusal by the gateway.
VerifyOnAnswer_FailsOnTransport(r, ans) ==
    IF GatewaySuccess(ans)
      THEN [r EXCEPT !.pc = "v_save", !.called = TRUE, !.ans = ans,
                     !.payment.status = "completed"]
      ELSE [r EXCEPT !.pc = "v_fail", !.called = TRUE, !.ans = ans,
                     !.payment.status = "failed"]

\* Variant: HTTP 200 alone counts as success, the reported status is not read.
VerifyOnAnswer_TrustsHttp(r, ans) ==
    IF ans = TransportError
      THEN [r EXCEPT !.pc = "done", !.called = TRUE, !.ans = ans,
                     !.resp = Resp(503, "error", "Failed to verify payment")]
      ELSE IF ans.http = 200
             THEN [r EXCEPT !.pc = "v_save", !.called = TRUE, !.ans = ans,
                            !.payment.status = "completed"]
             ELSE [r EXCEPT !.pc = "v_fail", !.called = TRUE, !.ans = ans,
                            !.payment.status = "failed"]

\* What the handler does with the gateway's answer to requests.get
VerifyOnAnswer(r, ans) ==
    IF ans = TransportError
      THEN [r EXCEPT !.pc = "done", !.called = TRUE, !.ans = ans,
                     !.resp = Resp(503, "error", "Failed to verify payment")]
      ELSE IF GatewaySuccess(ans)
             THEN [r EXCEPT !.pc = "v_save", !.called = TRUE, !.ans = ans,
                            !.payment.status = "completed"]
             ELSE [r EXCEPT !.pc = "v_fail", !.called = TRUE, !.ans = ans,
                            !.payment.status = "failed"]

\* response = requests.get(f'{CHAPA_API_URL}/transaction/verify/{...}', ...)
VerifyGet(w, ans) ==
    /\ req[w].pc = "v_get"
    /\ Put(w, VerifyOnAnswer([req[w] EXCEPT !.tries = @ + 1], ans))
    /\ granted' = IF GatewaySuccess(ans)
                    THEN granted \cup {req[w].payment.id}
                    ELSE granted
    /\ UNCHANGED <<bookings, payments, queue, calls, pool>>

\* payment.status = 'completed'; payment.save()
VerifySavePayment(w) ==
    /\ req[w].pc = "v_save"
    /\ payments' = SaveRow(req[w].payment)
    /\ Put(w, [req[w] EXCEPT !.pc = "v_booking"])
    /\ UNCHANGED <<bookings, queue, calls, pool, granted>>

\* booking.status = 'confirmed'; booking.save()
ConfirmBooking(b) == [bookings EXCEPT ![b].status = "confirmed"]

\* booking = payment.booking; booking.status = 'confirmed'; booking.save()
\* (the row is fetched here for the first time in this handler; status is the
\* only Booking field any handler writes, so fetch and save are one step)
VerifySaveBooking(w) ==
    /\ req[w].pc = "v_booking"
    /\ bookings' = ConfirmBooking(req[w].payment.booking)
    /\ Put(w, [req[w] EXCEPT !.pc = "v_enqueue",
                             !.booking = req[w].payment.booking])
    /\ UNCHANGED <<payments, queue, calls, pool, granted>>

\* send_booking_confirmation_email.delay(...); return Response(success).
\* No try block guards delay(): a broker failure leaves the handler as an
\* uncaught exception.
VerifyEnqueue(w, ok) ==
    /\ req[w].pc = "v_enqueue"
    /\ IF ok
         THEN /\ queue' = Append(queue, Job(req[w].booking, "verify"))
              /\ Put(w, [req[w] EXCEPT !.pc = "done", !.delays = @ + 1,
                           !.resp = Resp(200, "success",
                                         "Payment verified successfully")])
         ELSE /\ queue' = queue
              /\ Put(w, [req[w] EXCEPT !.pc = "done", !.delays = @ + 1,
                                       !.raised = TRUE,
                                       !.resp = Uncaught("OperationalError")])
    /\ UNCHANGED <<bookings, payments, calls, pool, granted>>

\* Variant: the confirmation e-mail is also sent for a refused verification.
VerifySaveFailed_Notifies(w) ==
    /\ req[w].pc = "v_fail"
    /\ payments' = SaveRow(req[w].payment)
    /\ queue' = Append(queue, Job(req[w].payment.booking, "verify"))
    /\ Put(w, [req[w] EXCEPT !.pc = "done", !.delays = @ + 1,
                 !.resp = Resp(400, "error", "Payment verification failed")])
    /\ UNCHANGED <<bookings, calls, pool, granted>>

\* payment.status = 'failed'; payment.save(); return Response(error, 400)
VerifySaveFailed(w) ==
    /\ req[w].pc = "v_fail"
    /\ payments' = SaveRow(req[w].payment)
    /\ Put(w, [req[w] EXCEPT !.pc = "done",
                 !.resp = Resp(400, "error", "Payment verification failed")])
    /\ UNCHANGED <<bookings, queue, calls, pool, granted>>

\* ------------------------------------------------------------------------
\* BookingViewSet.initiate_payment
\* ------------------------------------------------------------------------
\* POST /bookings/{pk}/initiate_payment/: booking = self.get_object()
StartBInit(w, pk) ==
    /\ Takes(w) /\ Accept
    /\ pk \in BookingPks
    /\ Take(w, IF pk \in BookingIds
                THEN [NewReq("binit") EXCEPT !.pk = pk, !.booking = pk,
                                             !.pc = "bi_lookup"]
                ELSE [NewReq("binit") EXCEPT !.pk = pk, !.pc = "done",
                         !.resp = Resp(404, "error", "Not found.")])
    /\ UNCHANGED <<bookings, payments, queue>>

\* Variant: a Payment is created without looking for a pending one.
BInitLookup_Blind(w) ==
    /\ req[w].pc = "bi_lookup"
    /\ Put(w, [req[w] EXCEPT !.pc = "bi_create"])
    /\ UNCHANGED <<bookings, payments, queue, calls, pool, granted>>

\* payment = Payment.objects.get(booking=booking, status='pending')
\* get() raises DoesNotExist on no row (caught) and MultipleObjectsReturned
\* on more than one (not caught).
BInitLookup(w) ==
    /\ req[w].pc = "bi_lookup"
    /\ LET found == PendingOf(req[w].booking)
       IN  Put(w, IF found = {}
                    THEN [req[w] EXCEPT !.pc = "bi_create"]
                    ELSE IF Cardinality(found) = 1
                           THEN [req[w] EXCEPT !.pc = "bi_delegate",
                                   !.payment = payments[CHOOSE p \in found : TRUE]]
                           ELSE [req[w] EXCEPT !.pc = "done",
                                   !.resp = Uncaught("MultipleObjectsReturned")])
    /\ UNCHANGED <<bookings, payments, queue, calls, pool, granted>>

\* except Payment.DoesNotExist: payment = Payment.objects.create(...)
BInitCreate(w) ==
    /\ req[w].pc = "bi_create"
    /\ payments' = Append(payments,
                          NewPaymentRow(Len(payments) + 1, req[w].booking))
    /\ Put(w, [req[w] EXCEPT !.pc = "bi_delegate", !.created = TRUE,
                 !.payment = NewPaymentRow(Len(payments) + 1, req[w].booking)])
    /\ UNCHANGED <<bookings, queue, calls, pool, granted>>

\* payment_viewset = PaymentViewSet(); payment_viewset.request = request;
\* payment_viewset.format_kwarg = None: only these two attributes are set on
\* the hand-built view, .kwargs is not (pk travels as a call argument only).
AdHocViewKwargs(pk) == NoKwargs

\* return payment_viewset.initiate_payment(request, pk=payment.pk)
BInitDelegate(w) ==
    /\ req[w].pc = "bi_delegate"
    /\ Put(w, PInitEnter([req[w] EXCEPT
                            !.kwargs = AdHocViewKwargs(req[w].payment.id),
                            !.payment = NoPayment,
                            !.delegated = req[w].payment.id]))
    /\ UNCHANGED <<bookings, payments, queue, calls, pool, granted>>

\* ------------------------------------------------------------------------
\* Specifications
\* ------------------------------------------------------------------------

Next ==
    \/ \E w \in Workers, price \in Prices : CreateBooking(w, price)
    \/ \E w \in Workers : CreatePayment(w)
    \/ \E w \in Workers, ok \in BOOLEAN : CreateEnqueue(w, ok)
    \/ \E w \in Workers, pk \in Pks : StartBInit(w, pk)
    \/ \E w \in Workers : BInitLookup(w)
    \/ \E w \in Workers : BInitCreate(w)
    \/ \E w \in Workers : BInitDelegate(w)
    \/ \E w \in Workers, pk \in Pks : StartPInit(w, pk)
    \/ \E w \in Workers, ans \in InitAnswers : PInitPost(w, ans)
    \/ \E w \in Workers : PInitSave(w)
    \/ \E w \in Workers, pk \in Pks : StartVerify(w, pk)
    \/ \E w \in Workers, ans \in VerifyAnswers : VerifyGet(w, ans)
    \/ \E w \in Workers : VerifySavePayment(w)
    \/ \E w \in Workers : VerifySaveBooking(w)
    \/ \E w \in Workers, ok \in BOOLEAN : VerifyEnqueue(w, ok)
    \/ \E w \in Workers : VerifySaveFailed(w)

\* Requests overlap freely.
Spec == Init /\ [][Next]_vars

\* One request at a time.
SpecSeq == InitSeq /\ [][Next]_vars

Quiet == \A w \in Workers : Free(w)

TypeOK ==
    /\ \A p \in PaymentIds : payments[p].status \in {"pending", "completed", "failed"}
    /\ \A b \in BookingIds : bookings[b].status \in {"pending", "confirmed"}

\* ------------------------------------------------------------------------
\* Vocabulary of the properties
\* ------------------------------------------------------------------------
\* Under SpecSeq, when no request is in flight the database is exactly as the
\* request recorded in `last` left it, and last.pre is the database as that
\* request found it.
Returned(op) == Quiet /\ last.op = op

\* verify_payment ran on an existing Payment that had a transaction id and
\* got an answer (or a transport error) from the gateway.
VerifyAnswered == Returned("verify") /\ last.called

Terminal(st) == st \in {"completed", "failed"}

DbUnchanged ==
    /\ payments = last.pre.payments
    /\ bookings = last.pre.bookings
    /\ queue = last.pre.queue

\* ------------------------------------------------------------------------
\* C1
\* ------------------------------------------------------------------------
\* C1: once a Payment's status is completed or failed, no step of any
\* initiate_payment or verify_payment call changes that status again.
C1_TerminalStatusFinal ==
    [][\A p \in PaymentIds :
          Terminal(payments[p].status)
             => payments'[p].status = payments[p].status]_vars

\* ------------------------------------------------------------------------
\* C2
\* ------------------------------------------------------------------------
\* C2: a verify_payment on a Payment with a transaction id to which the
\* gateway answered HTTP 200 and status 'success' leaves the Payment
\* completed and its Booking confirmed, and answers with a success response.
C2_VerifySuccess ==
    (VerifyAnswered /\ GatewaySuccess(last.ans))
       => /\ payments[last.pk].status = "completed"
          /\ bookings[payments[last.pk].booking].status = "confirmed"
          /\ last.resp.code = 200
          /\ last.resp.status = "success"

\* ------------------------------------------------------------------------
\* C3
\* ------------------------------------------------------------------------
\* C3: no request observes a Payment that is already completed while its
\* Booking is not yet confirmed.  The observer is an initiate_payment running
\* beside the verify: it reads the Payment row and then the Booking row.
C3_ConfirmAtomic ==
    \A w \in Workers :
        req[w].pc = "pi_post"
           => ~(req[w].payment.status = "completed" /\ req[w].seen # "confirmed")

\* ------------------------------------------------------------------------
\* C4
\* ------------------------------------------------------------------------
\* C4: a verify_payment on a Payment with a transaction id to which the
\* gateway answered anything but success (non-200, or a status other than
\* 'success') leaves the Payment failed and the Booking's status as it was
\* before the call, and answers with an error response.
C4_VerifyFailure ==
    (VerifyAnswered /\ last.ans # TransportError /\ ~GatewaySuccess(last.ans))
       => /\ payments[last.pk].status = "failed"
          /\ bookings = last.pre.bookings
          /\ last.resp.code = 400
          /\ last.resp.status = "error"

\* A verify that the gateway refused has returned, on a Payment that was
\* pending before the call.
C4_Witness ==
    /\ VerifyAnswered /\ last.ans = Answer(400, "failed", None, None)
    /\ last.pre.payments[last.pk].status = "pending"
    /\ payments[last.pk].status = "failed"

\* ------------------------------------------------------------------------
\* C5
\* ------------------------------------------------------------------------
\* C5: when the gateway call of verify_payment fails at transport level,
\* no Payment and no Booking changes, nothing is enqueued, and the caller
\* gets 503 Service Unavailable.
C5_VerifyTransportFailure ==
    (VerifyAnswered /\ last.ans = TransportError)
       => /\ DbUnchanged
          /\ last.resp.code = 503
          /\ last.resp.status = "error"

\* A verify on a pending Payment has returned after a connection error.
C5_Witness ==
    /\ VerifyAnswered /\ last.ans = TransportError
    /\ payments[last.pk].status = "pending"
    /\ ~Falsy(payments[last.pk].transaction_id)

\* ------------------------------------------------------------------------
\* C6
\* ------------------------------------------------------------------------
\* verify_payment ran on an existing Payment that had no transaction id.
VerifyWithoutTx ==
    /\ Returned("verify")
    /\ last.pk \in 1..Len(last.pre.payments)
    /\ Falsy(last.pre.payments[last.pk].transaction_id)

\* C6: verify_payment on a Payment without a stored transaction id answers
\* with a client error, sends nothing to the gateway and leaves Payments,
\* Bookings and the notification queue unchanged.
C6_VerifyNeedsTransaction ==
    VerifyWithoutTx
       => /\ last.resp.code = 400
          /\ last.resp.status = "error"
          /\ ~last.called
          /\ DbUnchanged

\* Such a verify has returned, on a Payment whose initiate the gateway had
\* refused before.
C6_Witness ==
    /\ VerifyWithoutTx
    /\ last.after.op = "pinit"
    /\ last.resp.message = "No transaction ID found for this payment"

\* ------------------------------------------------------------------------
\* C7
\* ------------------------------------------------------------------------
\* C7: in every reachable state each Booking has at most one pending Payment,
\* also while requests for the same Booking overlap.
C7_OnePendingPerBooking ==
    \A b \in BookingIds : Cardinality(PendingOf(b)) <= 1

\* ------------------------------------------------------------------------
\* C8
\* ------------------------------------------------------------------------
\* C8: when booking creation has returned, the new Booking has exactly one
\* Payment, created by this call, with amount = Booking.total_price, currency
\* 'ETB', status pending and neither transaction id nor checkout URL.
C8_CreateMakesOnePayment ==
    Returned("create")
       => /\ Len(payments) = Len(last.pre.payments) + 1
          /\ PaymentsOf(last.booking) = {Len(payments)}
          /\ payments[Len(payments)] =
                [id |-> Len(payments), booking |-> last.booking,
                 amount |-> bookings[last.booking].total_price,
                 currency |-> "ETB", status |-> "pending",
                 transaction_id |-> None, payment_url |-> None]

\* A Booking priced 400 has been created and its creation has returned.
C8_Witness ==
    /\ Returned("create")
    /\ bookings[last.booking].total_price = 400
    /\ last.resp.code = 201

\* ------------------------------------------------------------------------
\* C9
\* ------------------------------------------------------------------------
\* The Booking-level initiate_payment has returned, and the request before it
\* was the Booking-level initiate_payment on the same Booking.
InitiateRetried ==
    /\ Returned("binit")
    /\ last.booking # NoPk
    /\ last.after.op = "binit"
    /\ last.after.booking = last.booking

\* C9: a Booking-level initiate_payment that directly follows another one on
\* the same Booking creates no Payment and resolves the same Payment as
\* the call before it, which is still pending.
C9_RetryReusesPayment ==
    InitiateRetried
       => /\ ~last.created
          /\ Len(payments) = Len(last.pre.payments)
          /\ last.delegated # NoPk
          /\ last.delegated = last.after.delegated
          /\ payments[last.delegated].status = "pending"

\* A retry has returned where the first call had to create the Payment
\* (the Booking's earlier Payment was no longer pending).
C9_Witness ==
    /\ InitiateRetried
    /\ last.delegated > 1
    /\ PaymentsOf(last.booking) = {1, last.delegated}

\* ------------------------------------------------------------------------
\* C10
\* ------------------------------------------------------------------------
\* What POST /payments/{pk}/initiate_payment/ answers, and the row it leaves,
\* when it finds `row` and the gateway answers `ans`.
DirectInitiate(row, ans) ==
    LET r == PInitOnAnswer([IdleReq EXCEPT !.payment = row], ans)
    IN  IF r.pc = "done"
          THEN [resp |-> r.resp, row |-> row]
          ELSE [resp |-> PInitSuccess(r.payment), row |-> r.payment]

\* The Payment row the Booking-level action resolved: the pending one it
\* found, or the one it created.
ResolvedRow ==
    IF last.created
      THEN NewPaymentRow(last.delegated, last.booking)
      ELSE last.pre.payments[last.delegated]

\* C10: the Booking-level initiate_payment, once it has resolved the Payment,
\* answers and leaves that Payment as the Payment-level initiate_payment
\* does for one of the gateway's answers.
C10_DelegationEquivalent ==
    (Returned("binit") /\ last.delegated # NoPk)
       => \E ans \in InitAnswers :
             LET d == DirectInitiate(ResolvedRow, ans)
             IN  /\ last.resp = d.resp
                 /\ payments[last.delegated] = d.row
                 /\ last.called

\* ------------------------------------------------------------------------
\* C11
\* ------------------------------------------------------------------------
\* The Payment-level initiate_payment ran on an existing Payment and got an
\* answer (or a transport error) from the gateway.
InitiateAnswered == Returned("pinit") /\ last.called

\* Every Payment row but the one the call was about is as before the call.
OtherPaymentsUnchanged ==
    /\ Len(payments) = Len(last.pre.payments)
    /\ \A p \in PaymentIds : p # last.pk => payments[p] = last.pre.payments[p]

\* C11: after an initiate_payment to which the gateway answered HTTP 200 and
\* status 'success', the Payment holds the gateway's transaction id and
\* checkout URL, its other fields (status included: a pending Payment stays
\* pending) and the Bookings are as before, and the response is a success
\* that carries the checkout URL.
C11_InitiateSuccess ==
    (InitiateAnswered /\ GatewaySuccess(last.ans))
       => /\ payments[last.pk] =
                [last.pre.payments[last.pk] EXCEPT
                    !.transaction_id = last.ans.transaction_id,
                    !.payment_url = last.ans.checkout_url]
          /\ OtherPaymentsUnchanged
          /\ bookings = last.pre.bookings
          /\ last.resp.code = 200
          /\ last.resp.status = "success"
          /\ last.resp.payment_url = last.ans.checkout_url

\* A second initiate on a pending Payment has replaced tx_1 by tx_2.
C11_Witness ==
    /\ InitiateAnswered /\ GatewaySuccess(last.ans)
    /\ last.pre.payments[last.pk].transaction_id = "tx_1"
    /\ payments[last.pk].transaction_id = "tx_2"
    /\ payments[last.pk].payment_url = "url_2"
    /\ payments[last.pk].status = "pending"

\* ------------------------------------------------------------------------
\* C12
\* ------------------------------------------------------------------------
\* C12: after an initiate_payment that the gateway refused or that failed at
\* transport level, Payments, Bookings and queue are as before the call, the
\* gateway was called exactly once, and the response is 400 for a refusal
\* and 503 for a transport failure.
C12_InitiateFailure ==
    (InitiateAnswered /\ ~GatewaySuccess(last.ans))
       => /\ DbUnchanged
          /\ last.tries = 1
          /\ last.resp.status = "error"
          /\ last.resp.code = IF last.ans = TransportError THEN 503 ELSE 400

\* A failed initiate has returned on a Payment that already carried a
\* transaction id from an earlier initiate, and still carries it.
C12_Witness ==
    /\ InitiateAnswered /\ last.ans = TransportError
    /\ payments[last.pk].transaction_id = "tx_1"
    /\ payments[last.pk].status = "pending"

\* ------------------------------------------------------------------------
\* C13
\* ------------------------------------------------------------------------
\* C13: a Booking is confirmed only if the gateway has answered success to a
\* verify_payment on one of its Payments, and a Payment is completed only if
\* the gateway has answered success to a verify_payment on it; so neither
\* booking creation nor initiate_payment produces either status.
C13_OnlyVerifyConfirms ==
    /\ \A b \in BookingIds :
          bookings[b].status = "confirmed" => PaymentsOf(b) \cap granted # {}
    /\ \A p \in PaymentIds :
          payments[p].status = "completed" => p \in granted

\* A Booking is confirmed while an initiate_payment on its Payment, begun
\* before the verify, is still waiting to save.
C13_Witness ==
    /\ 1 \in BookingIds /\ 1 \in PaymentIds
    /\ bookings[1].status = "confirmed"
    /\ payments[1].status = "completed"
    /\ \E w \in Workers : req[w].pc = "pi_save" /\ req[w].payment.id = 1

\* ------------------------------------------------------------------------
\* C14
\* ------------------------------------------------------------------------
\* C14: when send_booking_confirmation_email.delay raises, the operation that
\* called it still succeeds: booking creation answers 201 with Booking and
\* Payment stored, and a verify_payment with gateway success answers 200.
C14_EnqueueFailureNotFatal ==
    (Quiet /\ last.raised)
       => /\ last.op = "create"
               => /\ last.resp.code = 201
                  /\ last.booking \in BookingIds
                  /\ PaymentsOf(last.booking) # {}
          /\ last.op = "verify"
               => /\ last.resp.code = 200
                  /\ last.resp.status = "success"

\* ------------------------------------------------------------------------
\* C15
\* ------------------------------------------------------------------------
\* verify_payment has returned after the gateway answered success.
VerifySucceeded == VerifyAnswered /\ GatewaySuccess(last.ans)

\* The job a verify on the Payment of this call hands to delay().
VerifyJob == Job(payments[last.pk].booking, "verify")

SentInitiates ==
    {r \in {req[w] : w \in Workers} \cup {last} :
        r.tries > 0 /\ r.callback # <<>>}

\* C16: the callback URL sent to the gateway for a Payment is the path under
\* which verify_payment is routed for that Payment, wherever the project
\* mounts listings.urls.
C16_CallbackReachesVerify ==
    \A r \in SentInitiates :
        \E m \in MountPrefixes : r.callback = m \o VerifyRoute(r.payment.id)

\* ------------------------------------------------------------------------
\* C17
\* ------------------------------------------------------------------------
CompletedOf(b) == {p \in PaymentsOf(b) : payments[p].status = "completed"}

\* C17: in every reachable state a confirmed Booking has at least one
\* completed Payment.
C17_ConfirmedHasCompleted ==
    \A b \in BookingIds :
        bookings[b].status = "confirmed" => CompletedOf(b) # {}

\* ------------------------------------------------------------------------
\* C18
\* ------------------------------------------------------------------------
\* Worker w performs the payment.save() of initiate_payment in this step.
InitiateSaves(w) == req[w].pc = "pi_save" /\ req'[w].pc # "pi_save"

\* C18: the payment.save() of initiate_payment leaves the status of its
\* Payment as it is in the database, also when a verify_payment has written
\* it since initiate_payment loaded the row.
C18_InitiateKeepsStatus ==
    [][\A w \in Workers :
          InitiateSaves(w)
             => payments'[req[w].payment.id].status
                   = payments[req[w].payment.id].status]_vars

\* ------------------------------------------------------------------------
\* C19
\* ------------------------------------------------------------------------
\* C19: no Booking ever has two completed Payments.
C19_OneCompletedPerBooking ==
    \A b \in BookingIds : Cardinality(CompletedOf(b)) <= 1

\* ------------------------------------------------------------------------
\* C20
\* ------------------------------------------------------------------------
\* C20: when initiate_payment has answered success for a Payment, that
\* Payment has a non-empty transaction id (so verify_payment will not refuse
\* it for lack of one).
C20_SuccessStoresTransaction ==
    (Returned("pinit") /\ last.resp.code = 200)
       => ~Falsy(payments[last.pk].transaction_id)

====
